---- MODULE Spec2Model ----
(***************************************************************************)
(* Merkle-Sum Sparse Merkle Tree (mssmt): FullTree over DefaultStore.      *)
(*                                                                         *)
(* Nodes are records.  SHA-256 is modelled as an injective function of the *)
(* byte string it is fed: a hash is the tagged byte string itself, so two  *)
(* hashes are equal exactly when the hashed inputs are equal.              *)
(*                                                                         *)
(* The tree is checked at a reduced number of levels: MAX_TREE_LEVELS is a *)
(* bound, and the keys are the HASH_SIZE-byte keys whose bits past         *)
(* MAX_TREE_LEVELS are zero.  bit_index itself works on 8-bit bytes as in  *)
(* the source.                                                             *)
(***************************************************************************)
EXTENDS Integers, Sequences, FiniteSets, TLC

\* ------------------------------------------------------------------ bounds
HASH_SIZE == 1
MAX_TREE_LEVELS == 2
MaxOps == 2
\* the width of the u64 sums, reduced as the levels are: sums are kept modulo
\* 2^U64_BITS
U64_BITS == 4
\* threads that call node_hash / node_sum on one shared node
MaxThreads == 2

\* values (Vec<u8>) and sums (u64) the operations are called with
Values == {<<>>, <<1>>}
Sums == {0, 2}

\* ------------------------------------------------------------- Option<T>
None == [some |-> FALSE]
Some(x) == [some |-> TRUE, val |-> x]

\* ------------------------------------------------------------------ keys
RECURSIVE Pow2(_)
Pow2(n) == IF n = 0 THEN 1 ELSE 2 * Pow2(n - 1)

\* the key whose first MAX_TREE_LEVELS bits spell n, all other bits zero
KeyOfPrefix(n) ==
    [i \in 1..HASH_SIZE |-> IF i = 1 THEN n * Pow2(8 - MAX_TREE_LEVELS) ELSE 0]

Keys == { KeyOfPrefix(n) : n \in 0..(Pow2(MAX_TREE_LEVELS) - 1) }

ZeroKey == [i \in 1..HASH_SIZE |-> 0]

\* the bit counted from the least significant end of its byte
bit_index_lsb_first(idx, key) ==
    LET byte_val == key[(idx \div 8) + 1]
    IN  (byte_val \div Pow2(idx % 8)) % 2

\* byte_val >> n is byte_val \div 2^n, and x & 1 is x % 2
bit_index(idx, key) ==
    LET byte_val == key[(idx \div 8) + 1]
    IN  (byte_val \div Pow2(7 - (idx % 8))) % 2

\* ----------------------------------------------------------------- nodes
LeafNode(key, value, sum) ==
    [type |-> "leaf", key |-> key, value |-> value, sum |-> sum]

BranchNode(left, right) ==
    [type |-> "branch", left |-> left, right |-> right]

IsBranch(n) == n.type = "branch"
IsLeaf(n) == n.type = "leaf"

EMPTY_LEAF_NODE == LeafNode(ZeroKey, <<>>, 0)

\* u64::to_be_bytes, for sums below 2^32 (the range of TLC integers): the four
\* high bytes are zero
to_be_bytes(sum) ==
    << 0, 0, 0, 0,
       (sum \div 16777216) % 256, (sum \div 65536) % 256,
       (sum \div 256) % 256, sum % 256 >>

\* Sha256 over the concatenation of the hasher updates, taken as injective.
\* The input is kept in two parts: the 32-byte digests fed in first (none for
\* a leaf, the two child hashes for a branch) and the plain bytes after them.
Sha256(digests, bytes) == [digests |-> digests, bytes |-> bytes]

U64_MODULUS == Pow2(U64_BITS)

\* BranchNode::node_sum adds with `+`: a release build wraps the u64, a debug
\* build panics when add_overflows.  node_sum is the wrapped value.
RECURSIVE node_sum(_)
node_sum(n) ==
    IF IsLeaf(n) THEN n.sum
    ELSE (node_sum(n.left) + node_sum(n.right)) % U64_MODULUS

add_overflows(branch) ==
    node_sum(branch.left) + node_sum(branch.right) >= U64_MODULUS

\* the leaf hash without the sum bytes
leaf_hash_no_sum(n) == Sha256(<<>>, n.key \o n.value)

leaf_hash(n) == Sha256(<<>>, n.key \o n.value \o to_be_bytes(n.sum))

RECURSIVE node_hash(_)
node_hash(n) ==
    IF IsLeaf(n) THEN leaf_hash(n)
    ELSE Sha256(<<node_hash(n.left), node_hash(n.right)>>,
                to_be_bytes(node_sum(n)))

EMPTY_TREE[i \in 0..MAX_TREE_LEVELS] ==
    IF i = MAX_TREE_LEVELS THEN EMPTY_LEAF_NODE
    ELSE BranchNode(EMPTY_TREE[i + 1], EMPTY_TREE[i + 1])

\* ----------------------------------------------------------------- state
VARIABLES
    root,       \* DefaultStore.root : Option<node>
    leaves,     \* DefaultStore.leaves : hash -> leaf
    branches,   \* DefaultStore.branches : hash -> branch
    kv,         \* the plain key -> Option<(value, sum)> map of the calls made
    phase,      \* shape of the call history, see Insert / Delete
    nops,       \* number of calls made
    build,      \* "debug" | "release": whether an overflowing u64 `+` panics or wraps
    outcome,    \* how the last call ended: "none" | "ok" | "err" | "panic"
    calls,      \* the store calls the last call made, in order
    last,       \* the last call: [op, key, fuel] or [op, key, value, sum, fuel]
    vcall,      \* a call of Proof::verify or of bit_index, followed on its
                \* own: its arguments and its result
    cells,      \* the cache cells of the shared node: cell -> Option<value>
    locks,      \* the RwLock of each cell: [readers, writer], sets of threads
    threads     \* each thread's call on the shared node: frames, result

treeVars == <<root, leaves, branches, kv, phase, nops, build, outcome, calls,
              last>>
cacheVars == <<cells, locks, threads>>
vars == <<root, leaves, branches, kv, phase, nops, build, outcome, calls, last,
          vcall, cells, locks, threads>>

\* -------------------------------------------------------------- TreeStore
\* The store as threaded through one call of the tree: the two maps, and
\*   fuel    the store calls that still return Ok before one returns Err;
\*           NeverFails for DefaultStore, whose calls all return Ok
\*   status  "ok"; "err" once a store call returned Err, which `?` hands to
\*           the caller at once; "panic" once a debug build overflowed a sum
\*   calls   the store calls made so far
\*   puts    the nodes handed to insert_branch / insert_leaf so far
\* Once status is not "ok" the call has ended: no later store call happens.
NeverFails == 0 - 1

Store(l, b, fuel, bld) ==
    [leaves |-> l, branches |-> b, fuel |-> fuel, status |-> "ok",
     calls |-> <<>>, puts |-> <<>>, build |-> bld]

store_call(st, name) ==
    IF st.status # "ok" THEN st
    ELSE IF st.fuel = 0 THEN
        [st EXCEPT !.status = "err", !.calls = Append(@, name)]
    ELSE
        [st EXCEPT !.fuel = IF @ > 0 THEN @ - 1 ELSE @,
                   !.calls = Append(@, name)]

MapPut(m, k, v) == (k :> v) @@ m
MapRemove(m, k) == [x \in (DOMAIN m) \ {k} |-> m[x]]

\* a root_node() that does not look at the stored root
root_node_always_empty(r) == EMPTY_TREE[0]

\* the node root_node() returns for the stored Option
root_node(r) == IF r.some THEN r.val ELSE EMPTY_TREE[0]

\* branch.node_hash() is where the sum of a new branch is first added up
insert_branch(st, branch) ==
    LET e == store_call(st, "insert_branch")
    IN  IF e.status # "ok" THEN e
        ELSE IF e.build = "debug" /\ add_overflows(branch) THEN
            [e EXCEPT !.status = "panic"]
        ELSE [e EXCEPT !.branches = MapPut(e.branches, node_hash(branch), branch),
                       !.puts = Append(@, branch)]

insert_leaf(st, leaf) ==
    LET e == store_call(st, "insert_leaf")
    IN  IF e.status # "ok" THEN e
        ELSE [e EXCEPT !.leaves = MapPut(e.leaves, node_hash(leaf), leaf),
                       !.puts = Append(@, leaf)]

delete_leaf(st, h) ==
    LET e == store_call(st, "delete_leaf")
    IN  IF e.status # "ok" THEN e
        ELSE [e EXCEPT !.leaves = MapRemove(e.leaves, h)]

\* an update_root that replaces the root in a call that has already ended
update_root_unconditional(st, r, node) ==
    LET e == store_call(st, "update_root")
    IN  [st |-> e, root |-> Some(node)]

\* update_root, and the Option the store holds after it
update_root(st, r, node) ==
    LET e == store_call(st, "update_root")
    IN  [st |-> e, root |-> IF e.status = "ok" THEN Some(node) ELSE r]

get_leaf(m, h) == IF h \in DOMAIN m THEN Some(m[h]) ELSE None

\* ------------------------------------------------------- FullTree::insert
\* The walks return [st |-> the store maps after the walk, node |-> result].
RECURSIVE insert_at_node(_, _, _, _, _)
RECURSIVE split_loop(_, _, _, _, _, _)

\* the `loop` of the split case: current_node / current_height are its
\* two mutable locals
split_loop(st, current_node, current_height, key, new_leaf_node, leaf_node_existing) ==
    IF current_height >= MAX_TREE_LEVELS THEN [st |-> st, node |-> current_node]
    ELSE
        LET existing_key == leaf_node_existing.key
            existing_bit == bit_index(current_height, existing_key)
            new_bit == bit_index(current_height, key)
        IN  IF existing_bit # new_bit THEN
                IF new_bit = 0 THEN
                    LET l == insert_at_node(st, EMPTY_LEAF_NODE, current_height + 1,
                                            key, new_leaf_node)
                        r == insert_at_node(l.st, EMPTY_LEAF_NODE, current_height + 1,
                                            existing_key, leaf_node_existing)
                        new_branch == BranchNode(l.node, r.node)
                    IN  [st |-> insert_branch(r.st, new_branch), node |-> new_branch]
                ELSE
                    LET l == insert_at_node(st, EMPTY_LEAF_NODE, current_height + 1,
                                            existing_key, leaf_node_existing)
                        r == insert_at_node(l.st, EMPTY_LEAF_NODE, current_height + 1,
                                            key, new_leaf_node)
                        new_branch == BranchNode(l.node, r.node)
                    IN  [st |-> insert_branch(r.st, new_branch), node |-> new_branch]
            ELSE
                split_loop(st, BranchNode(EMPTY_LEAF_NODE, EMPTY_LEAF_NODE),
                           current_height + 1, key, new_leaf_node, leaf_node_existing)

\* the walk that keeps the leaf a key already has
insert_at_node_keep_existing(st, node, height, key, leaf_node) ==
    IF height = MAX_TREE_LEVELS THEN
        IF IsLeaf(node) /\ node.key = key /\ node # EMPTY_LEAF_NODE
        THEN [st |-> st, node |-> node]
        ELSE [st |-> insert_leaf(st, leaf_node), node |-> leaf_node]
    ELSE
        LET bit == bit_index(height, key)
        IN  IF IsBranch(node) THEN
                IF bit = 0 THEN
                    LET rec == insert_at_node(st, node.left, height + 1, key, leaf_node)
                        new_branch == BranchNode(rec.node, node.right)
                    IN  [st |-> insert_branch(rec.st, new_branch), node |-> new_branch]
                ELSE
                    LET rec == insert_at_node(st, node.right, height + 1, key, leaf_node)
                        new_branch == BranchNode(node.left, rec.node)
                    IN  [st |-> insert_branch(rec.st, new_branch), node |-> new_branch]
            ELSE IF IsLeaf(node) THEN
                IF node.key = key THEN
                    [st |-> insert_leaf(st, leaf_node), node |-> leaf_node]
                ELSE
                    split_loop(st, node, height, key, leaf_node, node)
            ELSE [st |-> st, node |-> leaf_node]

\* the walk that rebuilds a branch without carrying over the untouched child
insert_at_node_drop_sibling(st, node, height, key, leaf_node) ==
    IF height = MAX_TREE_LEVELS THEN
        [st |-> insert_leaf(st, leaf_node), node |-> leaf_node]
    ELSE
        LET bit == bit_index(height, key)
        IN  IF IsBranch(node) THEN
                IF bit = 0 THEN
                    LET rec == insert_at_node(st, node.left, height + 1, key, leaf_node)
                        new_branch == BranchNode(rec.node, EMPTY_TREE[height + 1])
                    IN  [st |-> insert_branch(rec.st, new_branch), node |-> new_branch]
                ELSE
                    LET rec == insert_at_node(st, node.right, height + 1, key, leaf_node)
                        new_branch == BranchNode(node.left, rec.node)
                    IN  [st |-> insert_branch(rec.st, new_branch), node |-> new_branch]
            ELSE IF IsLeaf(node) THEN
                IF node.key = key THEN
                    [st |-> insert_leaf(st, leaf_node), node |-> leaf_node]
                ELSE
                    split_loop(st, node, height, key, leaf_node, node)
            ELSE [st |-> st, node |-> leaf_node]

insert_at_node(st, node, height, key, leaf_node) ==
    IF height = MAX_TREE_LEVELS THEN
        [st |-> insert_leaf(st, leaf_node), node |-> leaf_node]
    ELSE
        LET bit == bit_index(height, key)
        IN  IF IsBranch(node) THEN
                IF bit = 0 THEN
                    LET rec == insert_at_node(st, node.left, height + 1, key, leaf_node)
                        new_branch == BranchNode(rec.node, node.right)
                    IN  [st |-> insert_branch(rec.st, new_branch), node |-> new_branch]
                ELSE
                    LET rec == insert_at_node(st, node.right, height + 1, key, leaf_node)
                        new_branch == BranchNode(node.left, rec.node)
                    IN  [st |-> insert_branch(rec.st, new_branch), node |-> new_branch]
            ELSE IF IsLeaf(node) THEN
                IF node.key = key THEN
                    [st |-> insert_leaf(st, leaf_node), node |-> leaf_node]
                ELSE
                    split_loop(st, node, height, key, leaf_node, node)
            ELSE [st |-> st, node |-> leaf_node]

\* FullTree::insert up to the node handed to update_root
insert(st, r, key, value, sum) ==
    insert_at_node(store_call(st, "root_node"), root_node(r), 0, key,
                   LeafNode(key, value, sum))

\* FullTree::insert: [st |-> the store after the call, root |-> its root]
insert_call(st, r, key, value, sum) ==
    LET walk == insert(st, r, key, value, sum)
    IN  update_root(walk.st, r, walk.node)

\* ---------------------------------------------------------- FullTree::get
RECURSIVE get_at_node(_, _, _)
get_at_node(node, height, key) ==
    IF height = MAX_TREE_LEVELS THEN
        IF IsLeaf(node) /\ node.key = key THEN Some(<<node.value, node.sum>>)
        ELSE None
    ELSE
        IF IsBranch(node) THEN
            IF bit_index(height, key) = 0
            THEN get_at_node(node.left, height + 1, key)
            ELSE get_at_node(node.right, height + 1, key)
        ELSE None

get(r, key) == get_at_node(root_node(r), 0, key)

\* ------------------------------------------------------- FullTree::delete
RECURSIVE delete_at_node(_, _, _, _)

\* the walk whose collapse test looks at the children the branch had before
\* the deletion
delete_at_node_stale_test(st, node, height, key) ==
    IF height = MAX_TREE_LEVELS THEN
        IF IsLeaf(node) /\ node.key = key THEN
            [st |-> delete_leaf(st, node_hash(node)), node |-> EMPTY_LEAF_NODE]
        ELSE [st |-> st, node |-> node]
    ELSE
        IF IsBranch(node) THEN
            LET bit == bit_index(height, key)
                rec == IF bit = 0
                       THEN delete_at_node(st, node.left, height + 1, key)
                       ELSE delete_at_node(st, node.right, height + 1, key)
                new_left == IF bit = 0 THEN rec.node ELSE node.left
                new_right == IF bit = 0 THEN node.right ELSE rec.node
                new_branch == BranchNode(new_left, new_right)
                st2 == insert_branch(rec.st, new_branch)
            IN  IF /\ node_hash(node.left) = node_hash(EMPTY_LEAF_NODE)
                   /\ node_hash(node.right) = node_hash(EMPTY_LEAF_NODE)
                THEN [st |-> st2, node |-> EMPTY_LEAF_NODE]
                ELSE [st |-> st2, node |-> new_branch]
        ELSE [st |-> st, node |-> node]

delete_at_node(st, node, height, key) ==
    IF height = MAX_TREE_LEVELS THEN
        IF IsLeaf(node) /\ node.key = key THEN
            [st |-> delete_leaf(st, node_hash(node)), node |-> EMPTY_LEAF_NODE]
        ELSE [st |-> st, node |-> node]
    ELSE
        IF IsBranch(node) THEN
            LET bit == bit_index(height, key)
                rec == IF bit = 0
                       THEN delete_at_node(st, node.left, height + 1, key)
                       ELSE delete_at_node(st, node.right, height + 1, key)
                new_left == IF bit = 0 THEN rec.node ELSE node.left
                new_right == IF bit = 0 THEN node.right ELSE rec.node
                new_branch == BranchNode(new_left, new_right)
                st2 == insert_branch(rec.st, new_branch)
            IN  IF /\ node_hash(new_left) = node_hash(EMPTY_LEAF_NODE)
                   /\ node_hash(new_right) = node_hash(EMPTY_LEAF_NODE)
                THEN [st |-> st2, node |-> EMPTY_LEAF_NODE]
                ELSE [st |-> st2, node |-> new_branch]
        ELSE [st |-> st, node |-> node]

\* FullTree::delete up to the node handed to update_root
delete(st, r, key) ==
    delete_at_node(store_call(st, "root_node"), root_node(r), 0, key)

\* FullTree::delete: [st |-> the store after the call, root |-> its root]
delete_call(st, r, key) ==
    LET walk == delete(st, r, key)
    IN  update_root(walk.st, r, walk.node)

\* ------------------------------------------------- FullTree::merkle_proof
RECURSIVE generate_proof(_, _, _, _)
generate_proof(node, height, key, proof_nodes) ==
    IF height = MAX_TREE_LEVELS THEN proof_nodes
    ELSE
        IF IsBranch(node) THEN
            IF bit_index(height, key) = 0
            THEN generate_proof(node.left, height + 1, key,
                                Append(proof_nodes, node.right))
            ELSE generate_proof(node.right, height + 1, key,
                                Append(proof_nodes, node.left))
        ELSE proof_nodes

\* the siblings appended leaf side first
merkle_proof_leaf_first(r, key) ==
    LET nodes == generate_proof(root_node(r), 0, key, <<>>)
    IN  [i \in 1..Len(nodes) |-> nodes[Len(nodes) + 1 - i]]

merkle_proof(r, key) == generate_proof(root_node(r), 0, key, <<>>)

\* ------------------------------------------------------------------ Proof
\* nodes.iter().rev().enumerate(): step height_from_leaf takes
\* nodes[len - height_from_leaf] (1-based)
\* total_height - height_from_leaf - 1 is a usize: below zero a debug build
\* panics at the subtraction, and a release build wraps it to a height whose
\* byte bit_index then indexes out of the key, which panics as well
PANIC == [type |-> "panic"]

RECURSIVE proof_fold(_, _, _, _)
proof_fold(nodes, key, current_node, height_from_leaf) ==
    IF height_from_leaf = Len(nodes) THEN current_node
    ELSE IF MAX_TREE_LEVELS - height_from_leaf - 1 < 0 THEN PANIC
    ELSE
        LET sibling_node == nodes[Len(nodes) - height_from_leaf]
            height == MAX_TREE_LEVELS - height_from_leaf - 1
            bit == bit_index(height, key)
            parent_node == IF bit = 0
                           THEN BranchNode(current_node, sibling_node)
                           ELSE BranchNode(sibling_node, current_node)
        IN  proof_fold(nodes, key, parent_node, height_from_leaf + 1)

proof_root(nodes, key, leaf) == proof_fold(nodes, key, leaf, 0)

verify(nodes, key, leaf, root_hash) ==
    node_hash(proof_root(nodes, key, leaf)) = root_hash

\* how a call of Proof::verify ends: "true", "false" or "panic"
verify_outcome(nodes, key, leaf, root_hash) ==
    IF proof_root(nodes, key, leaf).type = "panic" THEN "panic"
    ELSE IF verify(nodes, key, leaf, root_hash) THEN "true"
    ELSE "false"

\* ------------------------------------- the caches of node_hash / node_sum
Threads == 1..MaxThreads

\* The node the threads share: a branch over two leaves.  A clone of a node
\* holds the same Arc<RwLock<..>> cells, so a call on a clone is a call on
\* these cells.
SHARED == BranchNode(LeafNode(ZeroKey, <<1>>, 2), LeafNode(KeyOfPrefix(1), <<>>, 1))

NodeNamed(name) ==
    IF name = "branch" THEN SHARED
    ELSE IF name = "left" THEN SHARED.left
    ELSE SHARED.right

\* a cell is <<node, field>>: LeafNode.node_hash, BranchNode.node_hash and
\* BranchNode.sum
Cells == { <<"left", "node_hash">>, <<"right", "node_hash">>,
           <<"branch", "node_hash">>, <<"branch", "node_sum">> }

\* the calls a thread may make: <<node, method>>
CacheCalls == { <<"branch", "node_hash">>, <<"branch", "node_sum">>,
                <<"left", "node_hash">>, <<"left", "node_sum">> }

\* what a call returns when nothing is cached and no other thread runs
PureValue(call) ==
    IF call[2] = "node_hash" THEN node_hash(NodeNamed(call[1]))
    ELSE node_sum(NodeNamed(call[1]))

\* a frame is one activation of node_hash / node_sum; pc is the next step:
\*   "enter"      before the read lock (a leaf's node_sum returns its field)
\*   "read"       holding the read lock, before looking at the cell
\*   "left_ret"   BranchNode::node_hash, left.node_hash() has returned
\*   "right_ret"  BranchNode::node_hash, right.node_hash() has returned
\*   "sum_ret"    BranchNode::node_hash, self.node_sum() has returned
\*   "wlock"      value computed, before the write lock
\*   "write"      holding the write lock, before the store into the cell
Frame(node, method) ==
    [node |-> node, method |-> method, pc |-> "enter",
     left_hash |-> None, right_hash |-> None, val |-> None]

\* the read guard is dropped at the end of the block it was taken in
ReleaseRead_kept(lk, c, t) == lk

ReleaseRead(lk, c, t) == [lk EXCEPT ![c].readers = @ \ {t}]

\* ---------------------------------------------------------------- actions
\* FullTree::new(DefaultStore::new()), no call made yet
FreshTree ==
    /\ root = None
    /\ leaves = <<>>
    /\ branches = <<>>
    /\ kv = [k \in Keys |-> None]
    /\ phase = "distinct"
    /\ nops = 0
    /\ outcome = "none"
    /\ calls = <<>>
    /\ last = [op |-> "none"]

\* no call of Proof::verify is being followed
NoVerify == vcall = [result |-> "none"]

\* no thread is calling into a shared node
NoThreads ==
    /\ cells = [c \in Cells |-> None]
    /\ locks = [c \in Cells |-> [readers |-> {}, writer |-> {}]]
    /\ threads = [t \in Threads |-> [call |-> <<>>, stack |-> <<>>,
                                      result |-> None, wrote |-> {}]]

Fresh == FreshTree /\ NoVerify /\ NoThreads

\* no sum of Spec reaches U64_MODULUS, so both builds behave alike there
Init == Fresh /\ build = "release"

\* the state a call leaves: res is the result of insert_call / delete_call
Returned(res, call) ==
    /\ leaves' = res.st.leaves
    /\ branches' = res.st.branches
    /\ root' = res.root
    /\ outcome' = res.st.status
    /\ calls' = res.st.calls
    /\ last' = call
    /\ nops' = nops + 1
    /\ UNCHANGED <<build, vcall, cells, locks, threads>>

\* phase records the shape of the calls made so far:
\*   "distinct"  only inserts, of pairwise distinct keys (or no call yet)
\*   "ins"       only inserts, some key inserted more than once
\*   "del"       inserts, then only deletes of keys that were present
\*   "mixed"     anything else
\* A call that returned Err or panicked leaves kv and phase as they were.
\* limit is the number of calls the behaviour is followed for.
InsertWithin(limit, key, value, sum, fuel) ==
    /\ nops < limit
    /\ outcome # "panic"
    /\ LET res == insert_call(Store(leaves, branches, fuel, build),
                              root, key, value, sum)
           ok == res.st.status = "ok"
       IN  /\ Returned(res, [op |-> "insert", key |-> key, value |-> value,
                             sum |-> sum, fuel |-> fuel])
           /\ kv' = IF ok THEN [kv EXCEPT ![key] = Some(<<value, sum>>)] ELSE kv
           /\ phase' = IF ~ok THEN phase
                       ELSE IF phase = "distinct" /\ kv[key] = None THEN "distinct"
                       ELSE IF phase \in {"distinct", "ins"} THEN "ins"
                       ELSE "mixed"

Insert(key, value, sum, fuel) == InsertWithin(MaxOps, key, value, sum, fuel)

DeleteWithin(limit, key, fuel) ==
    /\ nops < limit
    /\ outcome # "panic"
    /\ LET res == delete_call(Store(leaves, branches, fuel, build), root, key)
           ok == res.st.status = "ok"
       IN  /\ Returned(res, [op |-> "delete", key |-> key, fuel |-> fuel])
           /\ kv' = IF ok THEN [kv EXCEPT ![key] = None] ELSE kv
           /\ phase' = IF ~ok THEN phase
                       ELSE IF phase \in {"distinct", "ins", "del"} /\ kv[key] # None
                       THEN "del" ELSE "mixed"

Delete(key, fuel) == DeleteWithin(MaxOps, key, fuel)

\* the tree over DefaultStore
Next ==
    \/ \E key \in Keys, value \in Values, sum \in Sums :
            Insert(key, value, sum, NeverFails)
    \/ \E key \in Keys : Delete(key, NeverFails)

Spec == Init /\ [][Next]_vars

\* The tree over DefaultStore followed for one call more, each insert with
\* the same value and sum
DeepOps == MaxOps + 1

NextDeep ==
    \/ \E key \in Keys : InsertWithin(DeepOps, key, <<1>>, 2, NeverFails)
    \/ \E key \in Keys : DeleteWithin(DeepOps, key, NeverFails)

SpecDeep == Init /\ [][NextDeep]_vars

\* The tree called with sums whose total passes the u64 range, in either build
OverflowSums == {1, U64_MODULUS \div 2}

InitOverflow == Fresh /\ build \in {"debug", "release"}

NextOverflow ==
    \/ \E key \in Keys, sum \in OverflowSums : Insert(key, <<1>>, sum, NeverFails)
    \/ \E key \in Keys : Delete(key, NeverFails)

SpecOverflow == InitOverflow /\ [][NextOverflow]_vars

\* The tree over a TreeStore whose calls may return Err: each call of the
\* tree is given the number of store calls that succeed before one fails.
\* The caller is followed up to the first Err it gets back.
Fuels == (0..(MAX_TREE_LEVELS + 2)) \cup {NeverFails}

NextFailing ==
    \/ \E key \in Keys, fuel \in Fuels :
            outcome # "err" /\ Insert(key, <<1>>, 2, fuel)
    \/ \E key \in Keys, fuel \in Fuels :
            outcome # "err" /\ Delete(key, fuel)

SpecFailing == Init /\ [][NextFailing]_vars

\* Proof::verify as a function of its arguments: a proof of up to
\* MAX_TREE_LEVELS + 1 nodes, a key, a leaf and a root hash
RECURSIVE SeqsUpTo(_, _)
SeqsUpTo(S, n) ==
    IF n = 0 THEN {<<>>}
    ELSE LET shorter == SeqsUpTo(S, n - 1)
         IN  shorter \cup { Append(q, x) : q \in shorter, x \in S }

ProofNodes == {EMPTY_LEAF_NODE, LeafNode(KeyOfPrefix(1), <<1>>, 2)}
ProofLeaves == {EMPTY_LEAF_NODE, LeafNode(ZeroKey, <<1>>, 2)}
ProofRootHashes(leaf) ==
    { node_hash(EMPTY_TREE[0]), node_hash(leaf),
      node_hash(BranchNode(leaf, EMPTY_LEAF_NODE)),
      node_hash(BranchNode(EMPTY_LEAF_NODE, leaf)) }

InitVerify ==
    /\ FreshTree
    /\ NoThreads
    /\ build = "release"
    /\ \E nodes \in SeqsUpTo(ProofNodes, MAX_TREE_LEVELS + 1), key \in Keys,
          leaf \in ProofLeaves :
          \E root_hash \in ProofRootHashes(leaf) :
              vcall = [nodes |-> nodes, key |-> key, leaf |-> leaf,
                       root_hash |-> root_hash, result |-> "pending"]

Verify ==
    /\ vcall.result = "pending"
    /\ vcall' = [vcall EXCEPT !.result = verify_outcome(vcall.nodes, vcall.key,
                                                        vcall.leaf, vcall.root_hash)]
    /\ UNCHANGED treeVars
    /\ UNCHANGED cacheVars

SpecVerify == InitVerify /\ [][Verify]_vars

\* bit_index as a function of its arguments: an index into the key and a
\* key whose bytes are 0, 255, the bytes of alternating bits, the bytes with
\* one bit set and the bytes with one bit clear
BitBytes ==
    {0, 255, 170, 85}
        \cup { Pow2(n) : n \in 0..7 }
        \cup { 255 - Pow2(n) : n \in 0..7 }

BitKeys == [1..HASH_SIZE -> BitBytes]

InitBitIndex ==
    /\ FreshTree
    /\ NoThreads
    /\ build = "release"
    /\ \E idx \in 0..(8 * HASH_SIZE - 1), key \in BitKeys :
          vcall = [idx |-> idx, key |-> key, result |-> None]

BitIndex ==
    /\ vcall.result = None
    /\ vcall' = [vcall EXCEPT !.result = Some(bit_index(vcall.idx, vcall.key))]
    /\ UNCHANGED treeVars
    /\ UNCHANGED cacheVars

SpecBitIndex == InitBitIndex /\ [][BitIndex]_vars

\* Threads calling node_hash / node_sum on the shared node.  Each step is
\* one access to a lock or a cell, with the thread-local computation that
\* follows it.
Top(t) == threads[t].stack[Len(threads[t].stack)]
Running(t) == threads[t].stack # <<>>
CellOf(f) == <<f.node, f.method>>

\* the thread's stack with its top frame replaced
WithTop(t, f) ==
    [threads EXCEPT ![t].stack = [@ EXCEPT ![Len(@)] = f]]

\* the top frame returns v: the caller's frame takes it, or the call ends
Return(t, v, written) ==
    LET stack == threads[t].stack
        n == Len(stack)
        wrote == threads[t].wrote \cup written
    IN  IF n = 1 THEN
            [threads EXCEPT ![t].stack = <<>>, ![t].result = Some(v),
                            ![t].wrote = wrote]
        ELSE
            LET caller == stack[n - 1]
                resumed ==
                    IF caller.pc = "left_ret" THEN [caller EXCEPT !.left_hash = v]
                    ELSE IF caller.pc = "right_ret" THEN [caller EXCEPT !.right_hash = v]
                    ELSE [caller EXCEPT !.val = v]
            IN  [threads EXCEPT
                    ![t].stack = Append(SubSeq(stack, 1, n - 2), resumed),
                    ![t].wrote = wrote]

InitCache ==
    /\ FreshTree
    /\ NoVerify
    /\ build = "release"
    /\ cells = [c \in Cells |-> None]
    /\ locks = [c \in Cells |-> [readers |-> {}, writer |-> {}]]
    /\ \E call \in [Threads -> CacheCalls] :
          threads = [t \in Threads |->
                        [call |-> call[t],
                         stack |-> <<Frame(call[t][1], call[t][2])>>,
                         result |-> None, wrote |-> {}]]

\* LeafNode::node_sum: the field, no cache
LeafSum(t) ==
    /\ Running(t)
    /\ Top(t).pc = "enter"
    /\ Top(t).method = "node_sum"
    /\ IsLeaf(NodeNamed(Top(t).node))
    /\ threads' = Return(t, NodeNamed(Top(t).node).sum, {})
    /\ UNCHANGED <<cells, locks>>
    /\ UNCHANGED <<treeVars, vcall>>

\* self.<cell>.read(): granted while no writer holds the lock
AcquireRead(t) ==
    /\ Running(t)
    /\ Top(t).pc = "enter"
    /\ ~(Top(t).method = "node_sum" /\ IsLeaf(NodeNamed(Top(t).node)))
    /\ locks[CellOf(Top(t))].writer = {}
    /\ locks' = [locks EXCEPT ![CellOf(Top(t))].readers = @ \cup {t}]
    /\ threads' = WithTop(t, [Top(t) EXCEPT !.pc = "read"])
    /\ UNCHANGED cells
    /\ UNCHANGED <<treeVars, vcall>>

\* if let Some(v) = *guard { return v; } and the end of the block: on a miss
\* a leaf hashes its fields, BranchNode::node_sum adds the sums of its
\* children (leaves here), BranchNode::node_hash calls left.node_hash()
CheckCache(t) ==
    /\ Running(t)
    /\ Top(t).pc = "read"
    /\ LET f == Top(t)
           c == CellOf(f)
           node == NodeNamed(f.node)
       IN  /\ locks' = ReleaseRead(locks, c, t)
           /\ threads' =
                IF cells[c].some THEN Return(t, cells[c].val, {})
                ELSE IF f.method = "node_sum" THEN
                    WithTop(t, [f EXCEPT !.pc = "wlock",
                                         !.val = (node_sum(node.left) + node_sum(node.right))
                                                    % U64_MODULUS])
                ELSE IF IsLeaf(node) THEN
                    WithTop(t, [f EXCEPT !.pc = "wlock", !.val = leaf_hash(node)])
                ELSE
                    [threads EXCEPT ![t].stack =
                        Append([@ EXCEPT ![Len(@)] = [f EXCEPT !.pc = "left_ret"]],
                               Frame("left", "node_hash"))]
    /\ UNCHANGED cells
    /\ UNCHANGED <<treeVars, vcall>>

\* BranchNode::node_hash between its three calls
CallRight(t) ==
    /\ Running(t)
    /\ Top(t).pc = "left_ret"
    /\ threads' = [threads EXCEPT ![t].stack =
                        Append([@ EXCEPT ![Len(@)] = [Top(t) EXCEPT !.pc = "right_ret"]],
                               Frame("right", "node_hash"))]
    /\ UNCHANGED <<cells, locks>>
    /\ UNCHANGED <<treeVars, vcall>>

CallSum(t) ==
    /\ Running(t)
    /\ Top(t).pc = "right_ret"
    /\ threads' = [threads EXCEPT ![t].stack =
                        Append([@ EXCEPT ![Len(@)] = [Top(t) EXCEPT !.pc = "sum_ret"]],
                               Frame("branch", "node_sum"))]
    /\ UNCHANGED <<cells, locks>>
    /\ UNCHANGED <<treeVars, vcall>>

\* hasher.update(left_hash); update(right_hash); update(sum.to_be_bytes())
HashBranch(t) ==
    /\ Running(t)
    /\ Top(t).pc = "sum_ret"
    /\ LET f == Top(t)
       IN  threads' = WithTop(t, [f EXCEPT
                !.pc = "wlock",
                !.val = Sha256(<<f.left_hash, f.right_hash>>, to_be_bytes(f.val))])
    /\ UNCHANGED <<cells, locks>>
    /\ UNCHANGED <<treeVars, vcall>>

\* self.<cell>.write(): granted while nobody holds the lock
AcquireWrite(t) ==
    /\ Running(t)
    /\ Top(t).pc = "wlock"
    /\ locks[CellOf(Top(t))].writer = {}
    /\ locks[CellOf(Top(t))].readers = {}
    /\ locks' = [locks EXCEPT ![CellOf(Top(t))].writer = {t}]
    /\ threads' = WithTop(t, [Top(t) EXCEPT !.pc = "write"])
    /\ UNCHANGED cells
    /\ UNCHANGED <<treeVars, vcall>>

\* *guard = Some(value); the guard is dropped; the value is returned
StoreCache(t) ==
    /\ Running(t)
    /\ Top(t).pc = "write"
    /\ LET c == CellOf(Top(t))
       IN  /\ cells' = [cells EXCEPT ![c] = Some(Top(t).val)]
           /\ locks' = [locks EXCEPT ![c].writer = {}]
           /\ threads' = Return(t, Top(t).val, {c})
    /\ UNCHANGED <<treeVars, vcall>>

NextCache ==
    \E t \in Threads :
        \/ LeafSum(t)
        \/ AcquireRead(t)
        \/ CheckCache(t)
        \/ CallRight(t)
        \/ CallSum(t)
        \/ HashBranch(t)
        \/ AcquireWrite(t)
        \/ StoreCache(t)

SpecCache == InitCache /\ [][NextCache]_vars

\* ------------------------------------------------------ shared vocabulary
Present(k) == kv[k].some
EntryLeaf(k) == LeafNode(k, kv[k].val[1], kv[k].val[2])
RootNode == root_node(root)
RootHash == node_hash(RootNode)
RootSum == node_sum(RootNode)

RECURSIVE SumOver(_)
SumOver(ks) ==
    IF ks = {} THEN 0
    ELSE LET k == CHOOSE x \in ks : TRUE
         IN  kv[k].val[2] + SumOver(ks \ {k})

PresentKeys == { k \in Keys : Present(k) }

\* leaves a forger may offer: every value and sum of the calls, and one more
\* of each
ForgeEntries == (Values \X Sums) \cup {<<<<9>>, 1>>}

\* ----------------------------------------------------------------- claims
\* C1: the tree refines the plain map: for every key, get returns the entry
\* of the latest insert, and None if the key was never inserted or was
\* deleted since.
C1_Refinement == \A k \in Keys : get(root, k) = kv[k]

\* C2: after every insert and delete the root sum equals the sum over the
\* keys currently present, each counted with its latest sum.
C2_SumConservation == RootSum = SumOver(PresentKeys)

\* C3: for every key currently present, its proof verifies its leaf against
\* the current root hash.
C3_ProofSoundness ==
    \A k \in Keys :
        Present(k) => verify(merkle_proof(root, k), k, EntryLeaf(k), RootHash)

\* C4: in a tree built by inserts only, the proof of every key that was not
\* inserted verifies the empty leaf against the root hash.
C4_AbsenceAfterInserts ==
    phase \in {"distinct", "ins"} =>
        \A k \in Keys :
            ~Present(k) =>
                verify(merkle_proof(root, k), k, EMPTY_LEAF_NODE, RootHash)

C4_Witness ==
    /\ phase \in {"distinct", "ins"}
    /\ Cardinality(PresentKeys) >= 2
    /\ \E k \in Keys :
        /\ ~Present(k)
        /\ verify(merkle_proof(root, k), k, EMPTY_LEAF_NODE, RootHash)

\* C5: in every state reached by inserts and deletes, the proof of every key
\* that is not present verifies the empty leaf against the root hash.
C5_AbsenceAnyState ==
    \A k \in Keys :
        ~Present(k) =>
            verify(merkle_proof(root, k), k, EMPTY_LEAF_NODE, RootHash)

\* C6: for every present key, its proof verifies no leaf of that key that
\* differs from the stored one in value or sum.
C6_NonForgeability ==
    LET root_hash == RootHash
    IN  \A k \in Keys :
            Present(k) =>
                LET proof == merkle_proof(root, k)
                IN  \A e \in ForgeEntries :
                        e # kv[k].val =>
                            ~verify(proof, k, LeafNode(k, e[1], e[2]), root_hash)

C6_Witness ==
    /\ phase = "mixed"
    /\ \E k \in Keys :
        /\ Present(k)
        /\ verify(merkle_proof(root, k), k, EntryLeaf(k), RootHash)
        /\ \E e \in ForgeEntries :
            /\ e # kv[k].val
            /\ ~verify(merkle_proof(root, k), k, LeafNode(k, e[1], e[2]), RootHash)

\* C7: after inserting a set of keys and then deleting every one of them the
\* root has the hash of EMPTY_TREE[0] and sum 0.
C7_EmptiedRoot ==
    (phase = "del" /\ PresentKeys = {}) =>
        (RootHash = node_hash(EMPTY_TREE[0]) /\ RootSum = 0)

\* C8: after inserts of pairwise distinct keys into a fresh tree, get returns
\* the inserted entry for every inserted key and None for every other key.
C8_InsertRoundTrip ==
    (phase = "distinct" /\ nops >= 1) =>
        \A k \in Keys : get(root, k) = kv[k]

\* the depth at which the walk along key leaves the branches
RECURSIVE WalkDepth(_, _, _)
WalkDepth(node, height, key) ==
    IF height = MAX_TREE_LEVELS \/ ~IsBranch(node) THEN height
    ELSE IF bit_index(height, key) = 0
         THEN WalkDepth(node.left, height + 1, key)
         ELSE WalkDepth(node.right, height + 1, key)

\* C9: every proof the tree returns has exactly MAX_TREE_LEVELS siblings,
\* with EMPTY_TREE[d + 1] at every depth d at which the walk has already
\* left the branches.
C9_ProofLength ==
    \A k \in Keys :
        LET proof == merkle_proof(root, k)
            walked == WalkDepth(RootNode, 0, k)
        IN  /\ Len(proof) = MAX_TREE_LEVELS
            /\ \A d \in walked..(MAX_TREE_LEVELS - 1) :
                 proof[d + 1] = EMPTY_TREE[d + 1]

\* insert, into a fresh tree over an empty store, the current entries of the
\* keys of order, first to last; the result is the committed root
RECURSIVE InsertAll(_, _, _, _)
InsertAll(order, i, st, r) ==
    IF i > Len(order) THEN r
    ELSE LET k == order[i]
             res == insert(st, r, k, kv[k].val[1], kv[k].val[2])
         IN  InsertAll(order, i + 1, res.st, Some(res.node))

FreshInsertAll(order) ==
    InsertAll(order, 1, Store(<<>>, <<>>, NeverFails, "release"), None)

\* byte-wise order of keys
KeyLess(a, b) ==
    \E i \in 1..HASH_SIZE :
        /\ a[i] < b[i]
        /\ \A j \in 1..(i - 1) : a[j] = b[j]

\* the keys of ks in ascending order
RECURSIVE Ascending(_)
Ascending(ks) ==
    IF ks = {} THEN <<>>
    ELSE LET least == CHOOSE k \in ks : \A other \in ks \ {k} : KeyLess(k, other)
         IN  <<least>> \o Ascending(ks \ {least})

\* C10: inserting entries with pairwise distinct keys into a fresh tree gives
\* the same root hash and root sum whatever the order of insertion.  Every
\* order of every set of entries is a behaviour; in each of them the root is
\* the one got by inserting the same entries in ascending key order.
C10_OrderIndependence ==
    phase = "distinct" =>
        LET other == root_node(FreshInsertAll(Ascending(PresentKeys)))
        IN  /\ node_hash(other) = RootHash
            /\ node_sum(other) = RootSum

\* two keys were inserted, the greater one first: the store holds the root
\* of the tree that had the greater key alone
C10_Witness ==
    /\ phase = "distinct"
    /\ RootSum > 0
    /\ \E a, b \in PresentKeys :
        /\ KeyLess(a, b)
        /\ PresentKeys = {a, b}
        /\ node_hash(root_node(FreshInsertAll(<<b>>))) \in DOMAIN branches
        /\ node_hash(root_node(FreshInsertAll(<<a, b>>))) = RootHash

\* the root the store holds after the last call is made once more; the
\* walks never read the two maps, which are left out here
Again ==
    LET st == Store(<<>>, <<>>, NeverFails, build)
    IN  IF last.op = "insert"
        THEN insert_call(st, root, last.key, last.value, last.sum).root
        ELSE delete_call(st, root, last.key).root

\* C11: in every state reached by inserts and deletes, making the insert
\* just made once more leaves the root hash, the root sum and the result of
\* get for every key as they are.
C11_InsertIdempotence ==
    (last.op = "insert" /\ outcome = "ok") =>
        LET again == Again
        IN  /\ node_hash(root_node(again)) = RootHash
            /\ node_sum(root_node(again)) = RootSum
            /\ \A k \in Keys : get(again, k) = get(root, k)

\* C12: in every state reached by inserts and deletes, making the delete
\* just made once more leaves the root hash and the root sum as they are.
C12_DeleteIdempotence ==
    (last.op = "delete" /\ outcome = "ok") =>
        LET again == root_node(Again)
        IN  /\ node_hash(again) = RootHash
            /\ node_sum(again) = RootSum

\* a present key was deleted, and with it the last entry of the tree: the
\* walk collapsed branches; the second delete finds the collapsed tree
C12_Witness ==
    /\ last.op = "delete"
    /\ phase = "del"
    /\ PresentKeys = {}
    /\ last.key # ZeroKey
    /\ RootHash # node_hash(EMPTY_TREE[0])
    /\ node_hash(root_node(Again)) = RootHash

\* the sum of the leaves below a node, as a natural number
RECURSIVE exact_sum(_)
exact_sum(n) ==
    IF IsLeaf(n) THEN n.sum
    ELSE exact_sum(n.left) + exact_sum(n.right)

\* C13: a sum that passes the u64 range is never wrapped: no call panics,
\* the committed root never carries a sum reduced modulo 2^U64_BITS (an
\* insert that would overflow returns an error and leaves the prior root),
\* and no stored branch is hashed over a reduced sum.
C13_OverflowDetected ==
    /\ outcome # "panic"
    /\ RootSum = exact_sum(RootNode)
    /\ \A h \in DOMAIN branches :
          node_sum(branches[h]) = exact_sum(branches[h])

\* C14: a call in which a store call returns Err returns that error at once
\* and update_root has not taken effect: root() is the node it was before
\* the call, root hash and root sum are what they were, and so is the result
\* of get for every key.  update_root is the last store call of every call
\* that succeeds, and is made once.
C14_FailureAtomicity ==
    [][ LET fuel == last'.fuel
            n == Len(calls')
        IN  /\ (fuel # NeverFails /\ n > fuel) => outcome' = "err"
            /\ outcome' = "err" =>
                  /\ n = fuel + 1
                  /\ \A i \in 1..(n - 1) : calls'[i] # "update_root"
                  /\ RootNode' = RootNode
                  /\ RootHash' = RootHash
                  /\ RootSum' = RootSum
                  /\ \A k \in Keys : get(root', k) = get(root, k)
            /\ outcome' = "ok" =>
                  /\ calls'[n] = "update_root"
                  /\ \A i \in 1..(n - 1) : calls'[i] # "update_root"
      ]_vars

\* an insert failed at an insert_branch, after it had written its leaf to
\* the store: the key is still absent from the committed tree
C14_Witness ==
    /\ outcome = "err"
    /\ last.op = "insert"
    /\ calls[Len(calls)] = "insert_branch"
    /\ root.some
    /\ node_hash(LeafNode(last.key, last.value, last.sum)) \in DOMAIN leaves
    /\ ~Present(last.key)
    /\ get(root, last.key) = None

\* C15: in every reachable state delete(k) makes get(k) return None and
\* leaves the result of get for every other key as it was.
C15_DeleteFrame ==
    [][ (last'.op = "delete" /\ nops' = nops + 1) =>
            /\ get(root', last'.key) = None
            /\ \A k \in Keys \ {last'.key} : get(root', k) = get(root, k)
      ]_vars

\* C16: in every reachable state, the fresh tree included, delete(k) of a
\* key that is not present succeeds and leaves root hash and root sum as
\* they were.
C16_DeleteAbsentNoOp ==
    [][ (last'.op = "delete" /\ nops' = nops + 1 /\ ~Present(last'.key)) =>
            /\ outcome' = "ok"
            /\ RootHash' = RootHash
            /\ RootSum' = RootSum
      ]_vars

\* C17: for every proof whose node list is shorter or longer than
\* MAX_TREE_LEVELS, and every key, leaf and root hash, Proof::verify returns
\* false: it neither returns true nor panics.
C17_MalformedRejected ==
    (vcall.result \notin {"none", "pending"}
        /\ Len(vcall.nodes) # MAX_TREE_LEVELS) =>
        vcall.result = "false"

\* C18: in a tree built by inserts only, some of them of a key inserted
\* before, get returns for every inserted key the entry of its latest
\* insert, the root sum counts the latest sum of each key and no earlier
\* one, and the root hash is that of the tree into which only the latest
\* entry of each key was inserted.
C18_Overwrite ==
    phase = "ins" =>
        LET only_latest == root_node(FreshInsertAll(Ascending(PresentKeys)))
        IN  /\ \A k \in PresentKeys : get(root, k) = kv[k]
            /\ RootSum = SumOver(PresentKeys)
            /\ RootHash = node_hash(only_latest)

\* the last insert replaced another entry of its key: the store still holds
\* the leaf of the earlier insert, with another sum
C18_Witness ==
    /\ phase = "ins"
    /\ last.op = "insert"
    /\ kv[last.key] = Some(<<last.value, last.sum>>)
    /\ RootSum = last.sum
    /\ \E h \in DOMAIN leaves :
        /\ leaves[h].key = last.key
        /\ leaves[h].sum # last.sum
        /\ leaves[h].sum > 0

\* the hash of the chain E[d] = Branch(E[d + 1], E[d + 1]) that ends in the
\* empty leaf at depth MAX_TREE_LEVELS, every sum being 0
RECURSIVE EmptyChain(_)
EmptyChain(d) ==
    IF d = MAX_TREE_LEVELS
    THEN Sha256(<<>>, ZeroKey \o <<0, 0, 0, 0, 0, 0, 0, 0>>)
    ELSE Sha256(<<EmptyChain(d + 1), EmptyChain(d + 1)>>,
                <<0, 0, 0, 0, 0, 0, 0, 0>>)

\* C19: on a store whose root was never set root() returns EMPTY_TREE[0],
\* whose hash is that of the chain of empty branches and whose sum is 0;
\* after every call root() returns the node the call handed to update_root.
C19_RootPointer ==
    /\ [](nops = 0 =>
            /\ RootNode = EMPTY_TREE[0]
            /\ RootHash = EmptyChain(0)
            /\ RootSum = 0)
    /\ [][ nops' = nops + 1 =>
             LET st == Store(leaves, branches, NeverFails, build)
                 handed == IF last'.op = "insert"
                           THEN insert(st, root, last'.key, last'.value,
                                       last'.sum).node
                           ELSE delete(st, root, last'.key).node
             IN  RootNode' = handed
       ]_vars

\* two calls were made, the second a delete that changed the tree: root()
\* is neither the empty tree nor the root the first call committed
C19_Witness ==
    /\ nops = 2
    /\ last.op = "delete"
    /\ Present(KeyOfPrefix(1))
    /\ RootHash # node_hash(EMPTY_TREE[0])
    /\ RootHash # node_hash(root_node(FreshInsertAll(<<KeyOfPrefix(1)>>)))
    /\ RootHash \in DOMAIN branches

AllReturned == \A t \in Threads : ~Running(t)

\* a thread that holds a lock is at the step that releases it
HoldersProceed ==
    \A c \in Cells :
        /\ \A t \in locks[c].readers :
              Running(t) /\ Top(t).pc = "read" /\ CellOf(Top(t)) = c
        /\ \A t \in locks[c].writer :
              Running(t) /\ Top(t).pc = "write" /\ CellOf(Top(t)) = c

\* C20: for threads calling node_hash / node_sum on one shared node, every
\* call returns the value the node's fields and children determine; a cache
\* cell only ever changes from unset to that value; and in no interleaving
\* of the lock and cell steps are the threads stuck: whoever holds a lock
\* can release it, and while a call is running some step is enabled.
C20_CacheRace ==
    /\ [](/\ \A t \in Threads :
               threads[t].result.some =>
                   threads[t].result.val = PureValue(threads[t].call)
          /\ HoldersProceed
          /\ AllReturned \/ ENABLED NextCache)
    /\ [][ \A c \in Cells :
              cells'[c] # cells[c] =>
                  (cells[c] = None /\ cells'[c] = Some(PureValue(c)))
       ]_vars

\* two threads both missed the cache of the branch hash, both computed it
\* and both stored it; every call has returned
C20_Witness ==
    /\ AllReturned
    /\ \E t1, t2 \in Threads :
        /\ t1 # t2
        /\ <<"branch", "node_hash">> \in threads[t1].wrote \cap threads[t2].wrote
        /\ threads[t1].result = Some(node_hash(SHARED))
        /\ threads[t2].result = Some(node_hash(SHARED))

\* ------------------------------------------------------------ C21 .. C29
\* every path from node, which sits at depth, is branches down to depth
\* MAX_TREE_LEVELS and ends there in a leaf
RECURSIVE LeavesAtBottom(_, _)
LeavesAtBottom(node, depth) ==
    IF depth = MAX_TREE_LEVELS THEN IsLeaf(node)
    ELSE /\ IsBranch(node)
         /\ LeavesAtBottom(node.left, depth + 1)
         /\ LeavesAtBottom(node.right, depth + 1)

\* C21: in every state reached from the fresh tree by inserts and deletes,
\* every leaf reachable from the root, empty or not, sits at depth exactly
\* MAX_TREE_LEVELS and every node above that depth is a branch
C21_LeavesAtDepth == LeavesAtBottom(RootNode, 0)

\* every leaf other than EMPTY_LEAF_NODE under node is reached by the
\* directions its key spells: path is the directions taken from the root to
\* node, one per depth
RECURSIVE KeysMatchPath(_, _)
KeysMatchPath(node, path) ==
    IF IsLeaf(node) THEN
        \/ node = EMPTY_LEAF_NODE
        \/ \A d \in 0..(Len(path) - 1) : bit_index(d, node.key) = path[d + 1]
    ELSE /\ KeysMatchPath(node.left, Append(path, 0))
         /\ KeysMatchPath(node.right, Append(path, 1))

\* C22: in every state reached by inserts and deletes, every non-empty leaf
\* reachable from the root is reached by a path whose direction at each
\* depth d (left = 0, right = 1) is bit d of the leaf's key
C22_KeyMatchesPath == KeysMatchPath(RootNode, <<>>)

\* delete_at_node(node, d, key) and every call below it on the walk of key:
\* where the branch is recomputed from two children that are both the empty
\* subtree of depth d + 1, the node returned is the empty subtree of depth d
RECURSIVE CollapsesToEmpty(_, _, _)
CollapsesToEmpty(node, d, key) ==
    IF d = MAX_TREE_LEVELS \/ ~IsBranch(node) THEN TRUE
    ELSE
        LET st == Store(<<>>, <<>>, NeverFails, build)
            bit == bit_index(d, key)
            child == IF bit = 0 THEN node.left ELSE node.right
            rec == delete_at_node(st, child, d + 1, key).node
            new_left == IF bit = 0 THEN rec ELSE node.left
            new_right == IF bit = 0 THEN node.right ELSE rec
            returned == delete_at_node(st, node, d, key).node
        IN  /\ CollapsesToEmpty(child, d + 1, key)
            /\ ( /\ node_hash(new_left) = node_hash(EMPTY_TREE[d + 1])
                 /\ node_hash(new_right) = node_hash(EMPTY_TREE[d + 1]) )
               => node_hash(returned) = node_hash(EMPTY_TREE[d])

\* C23: when delete recomputes a branch at depth d and both of its children
\* are empty (equal to EMPTY_TREE[d + 1]), the node returned for depth d has
\* the hash of EMPTY_TREE[d], for every d below MAX_TREE_LEVELS
C23_DeleteCollapse ==
    [][last'.op = "delete" => CollapsesToEmpty(RootNode, 0, last'.key)]_vars

\* the nodes of the tree under n, n included
RECURSIVE Subnodes(_)
Subnodes(n) ==
    IF IsLeaf(n) THEN {n}
    ELSE {n} \cup Subnodes(n.left) \cup Subnodes(n.right)

\* the walk of a call from the tree under r, up to the node it hands to
\* update_root
WalkOf(call, r) ==
    LET st == Store(<<>>, <<>>, NeverFails, build)
    IN  IF call.op = "insert"
        THEN insert(st, r, call.key, call.value, call.sum)
        ELSE delete(st, r, call.key)

\* branches and non-empty leaves under n that the tree under old did not
\* hold: nodes the call must have made
Created(n, old) ==
    { x \in Subnodes(n) \ Subnodes(old) : x # EMPTY_LEAF_NODE }

FirstPut(log, x) ==
    IF \E i \in DOMAIN log : log[i] = x
    THEN CHOOSE i \in DOMAIN log : log[i] = x /\ \A j \in 1..(i - 1) : log[j] # x
    ELSE 0

\* every node the walk made is in its log of puts, after the children of
\* its that the walk made as well
PersistedBottomUp(walk, old) ==
    LET made == Created(walk.node, old)
        log == walk.st.puts
    IN  \A x \in made :
            /\ FirstPut(log, x) > 0
            /\ IsBranch(x) =>
                   \A c \in {x.left, x.right} \cap made :
                       /\ FirstPut(log, c) > 0
                       /\ FirstPut(log, c) < FirstPut(log, x)

\* C24: in every successful insert and delete, when update_root(n) is
\* called every branch and every non-empty leaf made by the call and
\* reachable from n has been passed to insert_branch / insert_leaf, each
\* child before the parent built from it
C24_PersistBeforeCommit ==
    [][(nops' = nops + 1 /\ outcome' = "ok") =>
            PersistedBottomUp(WalkOf(last', root), RootNode)]_vars

\* the sibling of the node the walk of key passes at depth d + 1, under
\* node at depth height; None where the walk ends above it
RECURSIVE SiblingAt(_, _, _, _)
SiblingAt(node, height, key, d) ==
    IF height = MAX_TREE_LEVELS \/ ~IsBranch(node) THEN None
    ELSE LET bit == bit_index(height, key)
             on == IF bit = 0 THEN node.left ELSE node.right
             off == IF bit = 0 THEN node.right ELSE node.left
         IN  IF height = d THEN Some(off)
             ELSE SiblingAt(on, height + 1, key, d)

\* the fold that combines the entry at list index i (0-based), last entry
\* first, by bit i of the key
RECURSIVE PairedFold(_, _, _, _)
PairedFold(nodes, key, current_node, i) ==
    IF i < 0 THEN current_node
    ELSE PairedFold(nodes, key,
                    IF bit_index(i, key) = 0
                    THEN BranchNode(current_node, nodes[i + 1])
                    ELSE BranchNode(nodes[i + 1], current_node),
                    i - 1)

\* C25: for every proof merkle_proof returns in a reachable state, the
\* entry at list index d is the sibling taken at depth d, and Proof::root
\* combines the entry at index i by bit i of the key
C25_SiblingDepthPairing ==
    \A k \in Keys :
        LET nodes == merkle_proof(root, k)
        IN  /\ \A d \in 0..(Len(nodes) - 1) :
                    SiblingAt(RootNode, 0, k, d) = Some(nodes[d + 1])
            /\ \A leaf \in {EMPTY_LEAF_NODE, LeafNode(k, <<1>>, 2)} :
                    proof_root(nodes, k, leaf)
                        = PairedFold(nodes, k, leaf, Len(nodes) - 1)

\* C26: in any state reached by inserts and deletes, a successful
\* insert(k, v, s) leaves get(k2) as it was for every key k2 other than k
C26_InsertFrame ==
    [][(nops' = nops + 1 /\ last'.op = "insert" /\ outcome' = "ok") =>
            \A k2 \in Keys \ {last'.key} : get(root', k2) = get(root, k2)]_vars

\* C27: two sequences of successful inserts and deletes, each applied to
\* its own fresh tree, that end with the same key -> (value, sum) map end
\* with the same root hash and root sum.  Every sequence is a behaviour;
\* the sequence it is compared with inserts the entries of its final map,
\* and nothing else, in ascending key order.
C27_HistoryIndependence ==
    LET canonical == root_node(FreshInsertAll(Ascending(PresentKeys)))
    IN  /\ RootHash = node_hash(canonical)
        /\ RootSum = node_sum(canonical)

\* C28: in every reachable state, the states after an insert or delete
\* that a store error ended included, every non-empty leaf reachable from
\* the committed root is what the store's get_leaf returns for its hash
C28_StoreCoversTree ==
    \A x \in Subnodes(RootNode) :
        (IsLeaf(x) /\ x # EMPTY_LEAF_NODE) =>
            get_leaf(leaves, node_hash(x)) = Some(x)

\* the value of eight bits written most significant bit first
MsbFirstValue(bits) ==
    bits[1] * 128 + bits[2] * 64 + bits[3] * 32 + bits[4] * 16
        + bits[5] * 8 + bits[6] * 4 + bits[7] * 2 + bits[8]

\* the eight bits of a byte, most significant bit first
MsbFirstBits(byte) ==
    CHOOSE bits \in [1..8 -> {0, 1}] : MsbFirstValue(bits) = byte

====
